---- MODULE Spec2Model ----
(***************************************************************************)
(* Model of bot.py: the posting loop run_bot with its adaptive sleeps, the *)
(* post composer create_tweet_text with its duplicate suppression, and the *)
(* helpers they call.                                                      *)
(*                                                                         *)
(* A Python str is a sequence of code points.  Each code point is one      *)
(* element, written as a one-character string for printable ASCII, "LF"    *)
(* for the newline and "U<hex>" for the emoji of the templates.            *)
(* A Python value that may be None is a sequence: <<>> is None and <<v>>   *)
(* is the value v.                                                         *)
(***************************************************************************)
EXTENDS Integers, Sequences, FiniteSets, Bags

VARIABLES
    pc,               \* position of run_bot's control flow
    feed,             \* history: what the feed request of line 48 gave
    topics,           \* run_bot local: result of fetch_trending_topics()
    topic,            \* run_bot local: random.choice(topics)
    tweet_text,       \* run_bot local: result of create_tweet_text(topic)
    image_url,        \* run_bot local: result of search_image_bing
    img_bytes,        \* run_bot local: result of download_image_memory
    media_id,         \* run_bot local: result of upload_image_memory
    error,            \* str(e) of the exception caught at line 221
    sleep_time,       \* argument of the time.sleep call in progress
    previous_titles,  \* module global, line 78
    tweet,            \* create_tweet_text local: the assembled string
    tag_sample,       \* create_tweet_text: random.sample(hashtags, 3)
    stamp,            \* create_tweet_text: str(int(time.time()))
    clean_title,      \* create_tweet_text local title, after line 127
    kept_description, \* create_tweet_text local description, after line 132
    steps,            \* history: the calls made in the current cycle
    posted_call,      \* history: arguments of the create_tweet call
    published,        \* history: create_tweet calls per composed title
    last_publish,     \* history: how the last create_tweet call ended
    slept             \* history: seconds slept since that call

vars == <<pc, feed, topics, topic, tweet_text, image_url, img_bytes, media_id,
          error, sleep_time, previous_titles, tweet, tag_sample, stamp,
          clean_title, kept_description, steps, posted_call, published,
          last_publish, slept>>

None == <<>>
Some(v) == <<v>>
Val(o) == o[1]

(***************************************************************************)
(* Bounds of the model.                                                    *)
(***************************************************************************)
\* length of the longest title and description drawn as compose inputs
MaxTextLen == 200
\* number of items in the longest feed response
MaxFeedItems == 11

(***************************************************************************)
(* Program constants.                                                      *)
(***************************************************************************)
FEED_LIMIT == 10
PREFIX_LEN == 20
SAMPLE_SIZE == 3
TWEET_LIMIT == 275
EMPTY_SLEEP == 120
DUPLICATE_SLEEP == 60
RATE_LIMIT_SLEEP == 7200
FORBIDDEN_SLEEP == 300
SUCCESS_SLEEP_MIN == 4500
SUCCESS_SLEEP_MAX == 9000
FALLBACK_SLEEP_MIN == 1800
FALLBACK_SLEEP_MAX == 3600

\* the value of a one-element set; { e(x) : x \in {v} } names v as x in e,
\* the way an assignment to a local names a value
Only(S) == CHOOSE x \in S : TRUE

(***************************************************************************)
(* Python str operations.                                                  *)
(***************************************************************************)
Min(a, b) == IF a < b THEN a ELSE b
Max(a, b) == IF a > b THEN a ELSE b

UpperCase == <<"A","B","C","D","E","F","G","H","I","J","K","L","M","N","O","P","Q","R","S","T","U","V","W","X","Y","Z">>
LowerCase == <<"a","b","c","d","e","f","g","h","i","j","k","l","m","n","o","p","q","r","s","t","u","v","w","x","y","z">>

\* str.lower() on one code point
LowerChar(c) ==
    IF \E i \in 1..Len(UpperCase) : UpperCase[i] = c
    THEN LowerCase[CHOOSE i \in 1..Len(UpperCase) : UpperCase[i] = c]
    ELSE c

\* s.lower()
Lower(s) == [i \in 1..Len(s) |-> LowerChar(s[i])]

\* s[:n] for n >= 0
Prefix(s, n) == SubSeq(s, 1, Min(n, Len(s)))

\* s[-n:] for n > 0
Suffix(s, n) == SubSeq(s, Max(1, Len(s) - n + 1), Len(s))

\* s.startswith(p)
StartsWith(s, p) == Len(p) <= Len(s) /\ SubSeq(s, 1, Len(p)) = p

\* sub in s
Contains(sub, s) ==
    \E i \in 0..(Len(s) - Len(sub)) : SubSeq(s, i + 1, i + Len(sub)) = sub

\* s.endswith(p)
EndsWith(s, p) == Len(p) <= Len(s) /\ SubSeq(s, Len(s) - Len(p) + 1, Len(s)) = p

Whitespace == {" ", "LF"}

\* s.strip() == ""
StripIsEmpty(s) == \A i \in 1..Len(s) : s[i] \in Whitespace

Digits == <<"0","1","2","3","4","5","6","7","8","9">>

\* str(n) for an int n >= 0
RECURSIVE IntToStr(_)
IntToStr(n) ==
    IF n < 10 THEN <<Digits[n + 1]>>
    ELSE Append(IntToStr(n \div 10), Digits[(n % 10) + 1])

\* " ".join(seq)
RECURSIVE Join(_)
Join(seq) ==
    IF Len(seq) = 0 THEN <<>>
    ELSE IF Len(seq) = 1 THEN seq[1]
    ELSE seq[1] \o <<" ">> \o Join(Tail(seq))

\* text of n copies of the code point c
Rep(c, n) == [i \in 1..n |-> c]

(***************************************************************************)
(* clean_html, lines 74-76.                                                *)
(***************************************************************************)
\* re.sub(r"<.*?>", "", s) deletes position p when a match covers it.
\* Scanning resumes after every ">", so p is covered when the first ">" at
\* or after p, at h, closes a "<" at m <= p with no ">" from m to p - 1,
\* and no newline lies between m and h ("." does not match a newline).
InTag(s, p) ==
    \E h \in p..Len(s) :
        /\ s[h] = ">"
        /\ \A k \in p..(h - 1) : s[k] # ">"
        /\ \E m \in 1..p :
              /\ s[m] = "<"
              /\ \A k \in m..(p - 1) : s[k] # ">"
              /\ \A k \in (m + 1)..(h - 1) : s[k] # "LF"

\* re.sub(r"<.*?>", "", s)
StripTags(s) ==
    LET Kept(p) == ~InTag(s, p)
    IN  Only({[k \in 1..Len(at) |-> s[at[k]]] :
                 at \in {SelectSeq([p \in 1..Len(s) |-> p], Kept)}})

\* the character references that occur in the modelled feeds
EntityNames == << <<"&","a","m","p",";">>, <<"&","l","t",";">>, <<"&","g","t",";">> >>
EntityChars == <<"&", "<", ">">>

\* the reference e is spelled out at position i of s
EntityAt(s, i, e) ==
    /\ i >= 1
    /\ i + Len(EntityNames[e]) - 1 <= Len(s)
    /\ SubSeq(s, i, i + Len(EntityNames[e]) - 1) = EntityNames[e]

\* html.unescape(s): each reference becomes its character.  A reference
\* holds "&" only as its first code point, so no two of them overlap.
Unescape(s) ==
    LET Refs == 1..Len(EntityNames)
        Inside(p) == \E e \in Refs : \E i \in (p - Len(EntityNames[e]) + 1)..(p - 1) :
                        EntityAt(s, i, e)
        Kept(p) == ~Inside(p)
    IN  Only({[k \in 1..Len(at) |->
                  IF \E e \in Refs : EntityAt(s, at[k], e)
                  THEN EntityChars[CHOOSE e \in Refs : EntityAt(s, at[k], e)]
                  ELSE s[at[k]]] :
                 at \in {SelectSeq([p \in 1..Len(s) |-> p], Kept)}})

clean_html(raw_html) == Only({Unescape(s) : s \in {StripTags(raw_html)}})

(***************************************************************************)
(* fetch_trending_topics, lines 41-68.                                     *)
(* A feed response is the outcome of the HTTP request and the XML parse:   *)
(* kind "error" when requests.get, raise_for_status or ET.fromstring       *)
(* raises, else the <item> elements in document order.  A child element    *)
(* of an item is absent (find returns None), empty (.text is None) or      *)
(* holds text.                                                             *)
(***************************************************************************)
Text(s) == [kind |-> "text", text |-> s]
EmptyElem == [kind |-> "empty", text |-> <<>>]
AbsentElem == [kind |-> "absent", text |-> <<>>]

\* "if title and desc", line 58
HasTitleAndDesc(item) ==
    /\ item.title.kind = "text" /\ item.title.text # <<>>
    /\ item.description.kind = "text" /\ item.description.text # <<>>

ToTopic(item) == [title |-> item.title.text, description |-> item.description.text]

\* mutant: the try sits inside the loop, the items before a broken one are kept
fetch_keeps_partial(response) ==
    IF response.kind = "error" THEN <<>>
    ELSE LET broken == {i \in 1..Len(response.items) :
                          \/ response.items[i].title.kind = "absent"
                          \/ response.items[i].description.kind = "absent"}
             upto == IF broken = {} THEN Len(response.items)
                     ELSE (CHOOSE i \in broken : \A j \in broken : i <= j) - 1
             kept == SelectSeq(SubSeq(response.items, 1, upto), HasTitleAndDesc)
             items == [i \in 1..Len(kept) |-> ToTopic(kept[i])]
         IN  IF items # <<>> THEN Prefix(items, FEED_LIMIT) ELSE <<>>

fetch_trending_topics(response) ==
    IF response.kind = "error" THEN <<>>
    ELSE IF \E i \in 1..Len(response.items) :
                \/ response.items[i].title.kind = "absent"
                \/ response.items[i].description.kind = "absent"
    THEN <<>>   \* .text of None raises AttributeError, caught at line 66
    ELSE LET kept == SelectSeq(response.items, HasTitleAndDesc)
             items == [i \in 1..Len(kept) |-> ToTopic(kept[i])]
         IN  IF items # <<>> THEN Prefix(items, FEED_LIMIT) ELSE <<>>

(***************************************************************************)
(* create_tweet_text, lines 126-166.                                       *)
(***************************************************************************)
intros == <<
    <<"U1F525"," ","B","r","e","a","k","i","n","g"," ","K","h","a","b","a","r","!">>,
    <<"U1F4F0"," ","A","a","j"," ","K","i"," ","T","a","a","z","a"," ","U","p","d","a","t","e","!">>,
    <<"U1F4E2"," ","T","r","e","n","d","i","n","g"," ","N","e","w","s"," ","A","l","e","r","t","!">>,
    <<"U26A1"," ","F","a","c","t"," ","C","h","e","c","k"," ","T","h","i","s","!">>,
    <<"U1F6A8"," ","B","i","g"," ","U","p","d","a","t","e","!">> >>

hashtags == <<
    <<"#","T","r","e","n","d","i","n","g">>,
    <<"#","I","n","d","i","a","N","e","w","s">>,
    <<"#","B","r","e","a","k","i","n","g">>,
    <<"#","L","a","t","e","s","t","U","p","d","a","t","e">>,
    <<"#","T","o","p","S","t","o","r","y">>,
    <<"#","I","n","S","h","o","r","t","s">> >>

\* the possible results of random.choice(population)
random_choice(population) == {population[i] : i \in 1..Len(population)}

\* mutant: random.choices(population, k=k), drawn with replacement
random_choices(population, k) ==
    {[i \in 1..k |-> population[pos[i]]] : pos \in [1..k -> 1..Len(population)]}

\* the possible results of random.sample(population, k): k elements at
\* pairwise distinct positions, in any order
random_sample(population, k) ==
    {[i \in 1..k |-> population[pos[i]]] :
        pos \in {f \in [1..k -> 1..Len(population)] :
                    \A i, j \in 1..k : i # j => f[i] # f[j]}}

\* the possible results of random.randint(a, b)
random_randint(a, b) == a..b

\* lines 127-132: the cleaned title, and the cleaned description unless it
\* starts like the title
\* mutant: the title is taken from the topic as it is
CleanTitleRaw(t) == t.title

CleanTitle(t) == clean_html(t.title)

\* mutant: description.lower()[:20] == title.lower()[:20]
KeptDescriptionPrefixEq(t) ==
    Only({IF Prefix(Lower(description), PREFIX_LEN) = Prefix(Lower(title), PREFIX_LEN)
          THEN <<>>
          ELSE description :
             title \in {clean_html(t.title)},
             description \in {clean_html(t.description)}})

KeptDescription(t) ==
    Only({IF StartsWith(Lower(description), Prefix(Lower(title), PREFIX_LEN))
          THEN <<>>
          ELSE description :
             title \in {clean_html(t.title)},
             description \in {clean_html(t.description)}})

\* mutant: the duplicate check never fires
IsDuplicateNever(title, seen) == FALSE

\* line 135
IsDuplicate(title, seen) == title \in seen

\* lines 155-163
Assemble(intro, title, description, tag_string, timestamp) ==
    intro \o <<"LF","LF">>
    \o <<"U1F449"," ">> \o title \o <<"LF","LF">>
    \o description \o <<"LF","LF">>
    \o tag_string
    \o <<"LF","LF","U23F3"," ">> \o timestamp

\* mutant: tweet[-276:]
TruncateOffByOne(s) == Suffix(s, TWEET_LIMIT + 1)

\* mutant: tweet[:275], the head is kept
TruncateHead(s) == Prefix(s, TWEET_LIMIT)

\* line 166: tweet[-275:]
Truncate(s) == Suffix(s, TWEET_LIMIT)

\* mutant: previous_titles.add(title) is missing
create_tweet_text_no_add(title, description, seen, intro, sample, now) ==
    IF title \in seen
    THEN [result |-> None, seen |-> seen,
          tweet |-> None, sample |-> None, stamp |-> None]
    ELSE LET assembled == Assemble(intro, title, description,
                                   Join(sample), IntToStr(now))
         IN  [result |-> Some(Suffix(assembled, TWEET_LIMIT)),
              seen |-> seen,
              tweet |-> Some(assembled), sample |-> Some(sample),
              stamp |-> Some(IntToStr(now))]

\* lines 134-166 of create_tweet_text, with title and description as
\* lines 127-132 leave them, previous_titles = seen, random.choice giving
\* intro, random.sample giving sample and time.time() giving now: the
\* returned value, the new previous_titles and the function's locals
create_tweet_text(title, description, seen, intro, sample, now) ==
    IF IsDuplicate(title, seen)
    THEN [result |-> None, seen |-> seen,
          tweet |-> None, sample |-> None, stamp |-> None]
    ELSE LET assembled == Assemble(intro, title, description,
                                   Join(sample), IntToStr(now))
         IN  [result |-> Some(Truncate(assembled)),
              seen |-> seen \cup {title},
              tweet |-> Some(assembled), sample |-> Some(sample),
              stamp |-> Some(IntToStr(now))]

(***************************************************************************)
(* Inputs: what the collaborators return.                                  *)
(***************************************************************************)
TitleA == <<"A">>
TitleMarkupA == <<"<","b",">","A","<","/","b",">">>
TitleTom == <<"T","o","m"," ","&","a","m","p",";"," ","C","o">>
TitleEmptyTag == <<"<","i",">","<","/","i",">">>
TitleBudget == <<"B","u","d","g","e","t"," ","2","0","2","5",":"," ","W","h","a","t"," ","i","t"," ","m","e","a","n","s"," ","f","o","r"," ","y","o","u">>
DescA == <<"A"," ","i","s"," ","g","r","e","a","t">>
DescRain == <<"R","a","i","n"," ","i","n"," ","D","e","l","h","i">>
DescTom == <<"T","o","m"," ","&","a","m","p",";"," ","C","o"," ","w","i","n","s">>
DescBudget == <<"b","u","d","g","e","t"," ","2","0","2","5",":"," ","w","h","a","t"," ","i","t"," ","m","e","a","n","s"," ","f","o","r"," ","I","n","d","i","a">>
DescEscaped == <<"&","l","t",";","b","&","g","t",";">>

Item(title, description) == [title |-> title, description |-> description]
ItemA == Item(Text(TitleA), Text(DescA))
ItemMarkupA == Item(Text(TitleMarkupA), Text(DescRain))
ItemTom == Item(Text(TitleTom), Text(DescTom))
ItemLong == Item(Text(Rep("x", MaxTextLen)), Text(DescRain))
ItemNoDesc == Item(Text(TitleTom), EmptyElem)
ItemNoTitle == Item(EmptyElem, Text(DescRain))
ItemBroken == Item(Text(TitleTom), AbsentElem)

\* the feed responses drawn by a fetch
FeedResponses == {
    [kind |-> "error", items |-> <<>>],
    [kind |-> "ok", items |-> <<>>],
    [kind |-> "ok", items |-> <<ItemNoDesc, ItemNoTitle>>],
    [kind |-> "ok", items |-> <<ItemA, ItemBroken>>],
    [kind |-> "ok", items |-> <<ItemA>>],
    [kind |-> "ok", items |-> <<ItemNoTitle, ItemMarkupA, ItemTom>>],
    [kind |-> "ok", items |-> [i \in 1..MaxFeedItems |->
                                IF i = MaxFeedItems THEN ItemLong ELSE ItemTom]] }

\* the values time.time() takes, truncated to int
Clock == {999999999, 1700000000}

\* search_image_bing, lines 80-100: None (no match, or an exception), or
\* the first match, which may be the empty string
ImageUrl == <<"h","t","t","p","s",":","/","/","i","m","g">>
SearchResults == {None, Some(<<>>), Some(ImageUrl)}

\* download_image_memory, lines 102-113: None (exception or status other
\* than 200), or a BytesIO of the body
DownloadResults == {None, Some(<<"J","F","I","F">>)}

\* upload_image_memory, lines 115-124: None on an exception, else the id
UploadResults == {None, Some(<<"1","2","9","0">>)}

\* str(e) of the exceptions client.create_tweet raises
PublishErrors == {
    <<"4","2","9"," ","T","o","o"," ","M","a","n","y"," ","R","e","q","u","e","s","t","s">>,
    <<"4","0","3"," ","F","o","r","b","i","d","d","e","n">>,
    <<"4","0","3"," ","F","o","r","b","i","d","d","e","n"," ","(","c","o","d","e"," ","4","2","9",")">>,
    <<"5","0","0"," ","I","n","t","e","r","n","a","l"," ","S","e","r","v","e","r"," ","E","r","r","o","r">>,
    <<"C","o","n","n","e","c","t","i","o","n"," ","r","e","s","e","t">> }

\* truth value of an optional str ("if image_url", "if media_id")
TruthyStr(o) == o # None /\ Val(o) # <<>>
\* truth value of an optional BytesIO ("if img_bytes"): any object is true
TruthyObj(o) == o # None

(***************************************************************************)
(* run_bot, lines 171-239.                                                 *)
(***************************************************************************)
Init ==
    /\ pc = "fetch"
    /\ feed = None
    /\ topics = <<>>
    /\ topic = None
    /\ tweet_text = None
    /\ image_url = None
    /\ img_bytes = None
    /\ media_id = None
    /\ error = None
    /\ sleep_time = 0
    /\ previous_titles = {}
    /\ tweet = None
    /\ tag_sample = None
    /\ stamp = None
    /\ clean_title = None
    /\ kept_description = None
    /\ steps = <<>>
    /\ posted_call = None
    /\ published = EmptyBag
    /\ last_publish = "none"
    /\ slept = 0

\* create_tweet_text has returned: its locals are gone
ComposeLocalsGone == tweet' = None /\ tag_sample' = None /\ stamp' = None

\* run_bot rebinds every local before it reads it again: the values of
\* the finished cycle are dropped once nothing reads them any more
LocalsDropped ==
    /\ topics' = <<>>
    /\ topic' = None
    /\ tweet_text' = None
    /\ image_url' = None
    /\ img_bytes' = None
    /\ media_id' = None
    /\ clean_title' = None
    /\ kept_description' = None
    /\ posted_call' = None
    /\ ComposeLocalsGone

\* the time that the pause after a publish call lasts at the least: the
\* shortest pause of lines 216-219 after a call that returned, and the
\* shortest pause of the handler, lines 221-239, after a call that raised
QuietTime(outcome) ==
    CASE outcome = "ok" -> SUCCESS_SLEEP_MIN
      [] outcome = "failed" -> FORBIDDEN_SLEEP
      [] OTHER -> 0

\* time.sleep(seconds); slept adds up the pauses since the last publish
\* call, and stops counting once the quiet time is reached
Sleep(seconds) ==
    /\ pc' = "sleeping"
    /\ sleep_time' = seconds
    /\ steps' = Append(steps, "sleep")
    /\ slept' = Min(slept + seconds, QuietTime(last_publish))
    /\ UNCHANGED last_publish

\* line 182
Fetch ==
    /\ pc = "fetch"
    /\ \E r \in FeedResponses :
          /\ feed' = Some(r)
          /\ topics' = fetch_trending_topics(r)
    /\ steps' = <<"fetch">>
    /\ pc' = "check_topics"
    /\ UNCHANGED <<topic, tweet_text, image_url, img_bytes, media_id, error,
                   sleep_time, previous_titles, tweet, tag_sample, stamp,
                   clean_title, kept_description, posted_call, published, last_publish, slept>>

\* mutant: "continue" without the sleep of line 186
NoTopicsNoSleep ==
    /\ pc = "check_topics"
    /\ topics = <<>>
    /\ pc' = "fetch"
    /\ feed' = None
    /\ LocalsDropped
    /\ UNCHANGED <<error, sleep_time, previous_titles, steps, published,
                   last_publish, slept>>

\* lines 184-187
NoTopics ==
    /\ pc = "check_topics"
    /\ topics = <<>>
    /\ Sleep(EMPTY_SLEEP)
    /\ LocalsDropped
    /\ UNCHANGED <<feed, error, previous_titles, published>>

\* line 189
ChooseTopic ==
    /\ pc = "check_topics"
    /\ topics # <<>>
    /\ \E t \in random_choice(topics) : topic' = Some(t)
    /\ feed' = None
    /\ pc' = "compose"
    /\ UNCHANGED <<topics, tweet_text, image_url, img_bytes, media_id, error,
                   sleep_time, previous_titles, tweet, tag_sample, stamp,
                   clean_title, kept_description, steps, posted_call, published, last_publish, slept>>

\* line 190, lines 127-132 of create_tweet_text
CleanTopic ==
    /\ pc = "compose"
    /\ clean_title' = Some(CleanTitle(Val(topic)))
    /\ kept_description' = Some(KeptDescription(Val(topic)))
    /\ pc' = "dedupe"
    /\ UNCHANGED <<feed, topics, topic, tweet_text, image_url, img_bytes, media_id,
                   error, sleep_time, previous_titles, tweet, tag_sample,
                   stamp, steps, posted_call, published, last_publish, slept>>

\* line 190, lines 134-166 of create_tweet_text
Compose ==
    /\ pc = "dedupe"
    /\ LET returns_early == IsDuplicate(Val(clean_title), previous_titles)
       IN  \E sample \in random_sample(hashtags, SAMPLE_SIZE) :
             /\ tag_sample' = IF returns_early THEN None ELSE Some(sample)
             /\ \E now \in Clock :
                   /\ stamp' = IF returns_early THEN None ELSE Some(IntToStr(now))
                   /\ \E intro \in random_choice(intros) :
                         LET r == create_tweet_text(Val(clean_title),
                                                    Val(kept_description),
                                                    previous_titles,
                                                    intro, sample, now)
                         IN  /\ tag_sample' = r.sample
                             /\ stamp' = r.stamp
                             /\ tweet_text' = r.result
                             /\ previous_titles' = r.seen
                             /\ tweet' = r.tweet
    /\ steps' = Append(steps, "compose")
    /\ pc' = "check_tweet"
    /\ UNCHANGED <<feed, topics, topic, image_url, img_bytes, media_id, error,
                   sleep_time, clean_title, kept_description, posted_call,
                   published, last_publish, slept>>

\* line 192
SkipCondition ==
    IF tweet_text = None THEN TRUE ELSE StripIsEmpty(Val(tweet_text))

\* lines 192-195
SkipTweet ==
    /\ pc = "check_tweet"
    /\ SkipCondition
    /\ Sleep(DUPLICATE_SLEEP)
    /\ LocalsDropped
    /\ UNCHANGED <<feed, error, previous_titles, published>>

\* lines 199-202
SearchImage ==
    /\ pc = "check_tweet"
    /\ ~SkipCondition
    /\ \E r \in SearchResults : image_url' = r
    /\ media_id' = None
    /\ steps' = Append(steps, "search_image")
    /\ pc' = IF TruthyStr(image_url') THEN "download" ELSE "publish"
    /\ ComposeLocalsGone
    /\ UNCHANGED <<feed, topics, topic, tweet_text, img_bytes, error, sleep_time,
                   previous_titles, clean_title, kept_description, posted_call, published, last_publish, slept>>

\* mutant: download_image_memory lets the exception of requests.get out,
\* and run_bot's handler catches it
DownloadImageUnguarded ==
    /\ pc = "download"
    /\ \/ /\ \E r \in DownloadResults \ {None} : img_bytes' = r
          /\ steps' = Append(steps, "download_image")
          /\ pc' = "upload"
          /\ UNCHANGED <<feed, topics, topic, tweet_text, image_url, media_id,
                         error, sleep_time, previous_titles, tweet, tag_sample,
                         stamp, clean_title, kept_description, posted_call,
                         published, last_publish, slept>>
       \/ /\ error' = Some(<<"t","i","m","e","d"," ","o","u","t">>)
          /\ steps' = Append(steps, "download_image")
          /\ pc' = "except"
          /\ LocalsDropped
          /\ UNCHANGED <<feed, sleep_time, previous_titles, published,
                         last_publish, slept>>

\* lines 203-204
DownloadImage ==
    /\ pc = "download"
    /\ \E r \in DownloadResults : img_bytes' = r
    /\ steps' = Append(steps, "download_image")
    /\ pc' = IF TruthyObj(img_bytes') THEN "upload" ELSE "publish"
    /\ UNCHANGED <<feed, topics, topic, tweet_text, image_url, media_id, error,
                   sleep_time, previous_titles, tweet, tag_sample, stamp,
                   clean_title, kept_description, posted_call, published, last_publish, slept>>

\* line 205
UploadImage ==
    /\ pc = "upload"
    /\ \E r \in UploadResults : media_id' = r
    /\ steps' = Append(steps, "upload_image")
    /\ pc' = "publish"
    /\ UNCHANGED <<feed, topics, topic, tweet_text, image_url, img_bytes, error,
                   sleep_time, previous_titles, tweet, tag_sample, stamp,
                   clean_title, kept_description, posted_call, published, last_publish, slept>>

\* lines 208-211: client.create_tweet is called
PublishCall ==
    /\ pc = "publish"
    /\ posted_call' = Some([text |-> Val(tweet_text),
                            media_ids |-> IF TruthyStr(media_id)
                                          THEN <<Val(media_id)>> ELSE <<>>])
    /\ steps' = Append(steps, "publish")
    /\ published' = published (+) SetToBag({Val(clean_title)})
    /\ slept' = 0
    /\ pc' = "publishing"
    /\ UNCHANGED <<feed, topics, topic, tweet_text, image_url, img_bytes, media_id,
                   error, sleep_time, previous_titles, tweet, tag_sample,
                   stamp, clean_title, kept_description, last_publish>>

\* the call returns; lines 213-214, the last read of tweet_text
PublishOk ==
    /\ pc = "publishing"
    /\ pc' = "posted"
    /\ last_publish' = "ok"
    /\ LocalsDropped
    /\ UNCHANGED <<feed, error, sleep_time, previous_titles, steps, published, slept>>

\* mutant: the handler takes the title of the failed tweet out of
\* previous_titles, so that the topic can be tried again
PublishFailsForgets ==
    /\ pc = "publishing"
    /\ \E message \in PublishErrors : error' = Some(message)
    /\ previous_titles' = previous_titles \ {Val(clean_title)}
    /\ pc' = "except"
    /\ last_publish' = "failed"
    /\ LocalsDropped
    /\ UNCHANGED <<feed, sleep_time, steps, published, slept>>

\* the call raises; lines 221-222 bind and print the exception
PublishFails ==
    /\ pc = "publishing"
    /\ \E message \in PublishErrors : error' = Some(message)
    /\ pc' = "except"
    /\ last_publish' = "failed"
    /\ LocalsDropped
    /\ UNCHANGED <<feed, sleep_time, previous_titles, steps, published, slept>>

\* mutant: the 75-150 minutes are passed to time.sleep as they are
SleepAfterSuccessMinutes ==
    /\ pc = "posted"
    /\ sleep_time' \in random_randint(SUCCESS_SLEEP_MIN \div 60, SUCCESS_SLEEP_MAX \div 60)
    /\ Sleep(sleep_time')
    /\ UNCHANGED <<feed, topics, topic, tweet_text, image_url, img_bytes,
                   media_id, error, previous_titles, tweet, tag_sample, stamp,
                   clean_title, kept_description, posted_call, published>>

\* lines 216-219
SleepAfterSuccess ==
    /\ pc = "posted"
    /\ sleep_time' \in random_randint(SUCCESS_SLEEP_MIN, SUCCESS_SLEEP_MAX)
    /\ Sleep(sleep_time')
    /\ UNCHANGED <<feed, topics, topic, tweet_text, image_url, img_bytes, media_id,
                   error, previous_titles, tweet, tag_sample, stamp, clean_title, kept_description,
                   posted_call, published>>

\* mutant: str(e).startswith("429")
IsRateLimitPrefix(message) == StartsWith(message, <<"4","2","9">>)

\* line 225
IsRateLimit(message) == Contains(<<"4","2","9">>, message)
\* line 231
IsForbidden(message) == Contains(<<"4","0","3">>, message)

\* mutant: the "continue" of line 234 is missing, the fallback sleep follows
ForbiddenNoContinue ==
    /\ pc = "except"
    /\ ~IsRateLimit(Val(error))
    /\ IsForbidden(Val(error))
    /\ \E fallback_sleep \in random_randint(FALLBACK_SLEEP_MIN, FALLBACK_SLEEP_MAX) :
          /\ pc' = "sleeping"
          /\ sleep_time' = fallback_sleep
          /\ steps' = steps \o <<"sleep", "sleep">>
          /\ slept' = Min(slept + FORBIDDEN_SLEEP + fallback_sleep, QuietTime(last_publish))
    /\ UNCHANGED <<feed, topics, topic, tweet_text, image_url, img_bytes,
                   media_id, error, previous_titles, tweet, tag_sample, stamp,
                   clean_title, kept_description, posted_call, published, last_publish>>

\* mutant: the 30-60 minutes are passed to time.sleep as they are
FallbackMinutes ==
    /\ pc = "except"
    /\ ~IsRateLimit(Val(error))
    /\ ~IsForbidden(Val(error))
    /\ sleep_time' \in random_randint(FALLBACK_SLEEP_MIN \div 60, FALLBACK_SLEEP_MAX \div 60)
    /\ Sleep(sleep_time')
    /\ UNCHANGED <<feed, topics, topic, tweet_text, image_url, img_bytes,
                   media_id, error, previous_titles, tweet, tag_sample, stamp,
                   clean_title, kept_description, posted_call, published>>

\* mutant: the handler prints the error and raises it again
FallbackRaises ==
    /\ pc = "except"
    /\ ~IsRateLimit(Val(error))
    /\ ~IsForbidden(Val(error))
    /\ pc' = "raised"
    /\ UNCHANGED <<feed, topics, topic, tweet_text, image_url, img_bytes,
                   media_id, error, sleep_time, previous_titles, tweet,
                   tag_sample, stamp, clean_title, kept_description, steps,
                   posted_call, published, last_publish, slept>>

\* mutant: the rate limit ends the loop ("break" for "continue")
RateLimitedExits ==
    /\ pc = "except"
    /\ IsRateLimit(Val(error))
    /\ pc' = "exited"
    /\ UNCHANGED <<feed, topics, topic, tweet_text, image_url, img_bytes,
                   media_id, error, sleep_time, previous_titles, tweet,
                   tag_sample, stamp, clean_title, kept_description, steps,
                   posted_call, published, last_publish, slept>>

\* lines 225-228
RateLimited ==
    /\ pc = "except"
    /\ IsRateLimit(Val(error))
    /\ Sleep(RATE_LIMIT_SLEEP)
    /\ UNCHANGED <<feed, topics, topic, tweet_text, image_url, img_bytes, media_id,
                   error, previous_titles, tweet, tag_sample, stamp, clean_title, kept_description,
                   posted_call, published>>

\* mutant: the 403 branch sleeps as the skip of a duplicate does
ForbiddenShort ==
    /\ pc = "except"
    /\ ~IsRateLimit(Val(error))
    /\ IsForbidden(Val(error))
    /\ Sleep(DUPLICATE_SLEEP)
    /\ UNCHANGED <<feed, topics, topic, tweet_text, image_url, img_bytes,
                   media_id, error, previous_titles, tweet, tag_sample, stamp,
                   clean_title, kept_description, posted_call, published>>

\* lines 231-234
Forbidden ==
    /\ pc = "except"
    /\ ~IsRateLimit(Val(error))
    /\ IsForbidden(Val(error))
    /\ Sleep(FORBIDDEN_SLEEP)
    /\ UNCHANGED <<feed, topics, topic, tweet_text, image_url, img_bytes, media_id,
                   error, previous_titles, tweet, tag_sample, stamp, clean_title, kept_description,
                   posted_call, published>>

\* lines 237-239
Fallback ==
    /\ pc = "except"
    /\ ~IsRateLimit(Val(error))
    /\ ~IsForbidden(Val(error))
    /\ sleep_time' \in random_randint(FALLBACK_SLEEP_MIN, FALLBACK_SLEEP_MAX)
    /\ Sleep(sleep_time')
    /\ UNCHANGED <<feed, topics, topic, tweet_text, image_url, img_bytes, media_id,
                   error, previous_titles, tweet, tag_sample, stamp, clean_title, kept_description,
                   posted_call, published>>

\* time.sleep returns; "continue" or the end of the loop body leads back
\* to line 181, and the name e is unbound when the except clause is left
Wake ==
    /\ pc = "sleeping"
    /\ pc' = "fetch"
    /\ sleep_time' = 0
    /\ error' = None
    /\ feed' = None
    /\ UNCHANGED <<topics, topic, tweet_text, image_url, img_bytes, media_id,
                   previous_titles, tweet, tag_sample, stamp, clean_title,
                   kept_description, steps, posted_call, published, last_publish, slept>>

Next ==
    \/ Fetch
    \/ NoTopics
    \/ ChooseTopic
    \/ CleanTopic
    \/ Compose
    \/ SkipTweet
    \/ SearchImage
    \/ DownloadImage
    \/ UploadImage
    \/ PublishCall
    \/ PublishOk
    \/ PublishFails
    \/ SleepAfterSuccess
    \/ RateLimited
    \/ Forbidden
    \/ Fallback
    \/ Wake

Spec == Init /\ [][Next]_vars

(***************************************************************************)
(* create_tweet_text on its own: run_bot stands at line 190 with a topic   *)
(* drawn from ComposeTopics and previous_titles as earlier cycles may have *)
(* left it, every title in it composed and passed to create_tweet once.    *)
(***************************************************************************)
LongLens == (MaxTextLen - 3)..MaxTextLen

ComposeTopics ==
    {[title |-> t, description |-> d] :
        t \in {TitleA, TitleMarkupA, TitleTom, TitleEmptyTag, TitleBudget},
        d \in {DescA, DescRain, DescTom, DescBudget, DescEscaped}}
    \cup
    {[title |-> Rep("x", n), description |-> d] :
        n \in LongLens, d \in {DescRain, Rep("y", MaxTextLen)}}

ComposeSeen == {{}, {TitleA}, {TitleA, Rep("x", MaxTextLen)}}

ComposeInit ==
    /\ pc = "compose"
    /\ feed = None
    /\ \E t \in ComposeTopics : topics = <<t>> /\ topic = Some(t)
    /\ tweet_text = None
    /\ image_url = None
    /\ img_bytes = None
    /\ media_id = None
    /\ error = None
    /\ sleep_time = 0
    /\ previous_titles \in ComposeSeen
    /\ tweet = None
    /\ tag_sample = None
    /\ stamp = None
    /\ clean_title = None
    /\ kept_description = None
    /\ steps = <<"fetch">>
    /\ posted_call = None
    /\ published = SetToBag(previous_titles)
    /\ last_publish = IF previous_titles = {} THEN "none" ELSE "ok"
    /\ slept = QuietTime(last_publish)

ComposeNext ==
    \/ CleanTopic
    \/ Compose

ComposeSpec == ComposeInit /\ [][ComposeNext]_vars

\* the feed responses from which fetch_trending_topics returns topics
NonEmptyResponses == {r \in FeedResponses : fetch_trending_topics(r) # <<>>}

\* line 182, with a feed that has topics
FetchTopics ==
    /\ pc = "fetch"
    /\ \E r \in NonEmptyResponses :
          /\ feed' = Some(r)
          /\ topics' = fetch_trending_topics(r)
    /\ steps' = <<"fetch">>
    /\ pc' = "check_topics"
    /\ UNCHANGED <<topic, tweet_text, image_url, img_bytes, media_id, error,
                   sleep_time, previous_titles, tweet, tag_sample, stamp,
                   clean_title, kept_description, posted_call, published,
                   last_publish, slept>>

\* the loop of run_bot when every fetch gives topics
BusyNext ==
    \/ FetchTopics
    \/ ChooseTopic
    \/ CleanTopic
    \/ Compose
    \/ SkipTweet
    \/ SearchImage
    \/ DownloadImage
    \/ UploadImage
    \/ PublishCall
    \/ PublishOk
    \/ PublishFails
    \/ SleepAfterSuccess
    \/ RateLimited
    \/ Forbidden
    \/ Fallback
    \/ Wake

\* run_bot is the only thread of the process, lines 244-245, and every call
\* it makes returns or raises: whenever a step is possible one is taken
FairSpec == Init /\ [][Next]_vars /\ WF_vars(Next)

\* the same, with a feed that has topics at every fetch
BusySpec == Init /\ [][BusyNext]_vars /\ WF_vars(BusyNext)

(***************************************************************************)
(* Properties.                                                             *)
(***************************************************************************)
\* number of "sleep" entries of a cycle's steps
Sleeps(st) == Cardinality({i \in 1..Len(st) : st[i] = "sleep"})

\* C1: when the cleaned title of the chosen topic is already in
\* previous_titles, create_tweet_text returns None and leaves
\* previous_titles as it is; the cycle that gets None makes no image lookup
\* and no create_tweet call, sleeps 60 seconds and goes back to the fetch.
C1_DuplicateIsSkipped ==
    [][ /\ (pc = "dedupe" /\ Val(clean_title) \in previous_titles)
            => /\ tweet_text' = None
               /\ previous_titles' = previous_titles
               /\ pc' = "check_tweet"
        /\ (pc = "check_tweet" /\ tweet_text = None)
            => /\ pc' = "sleeping"
               /\ sleep_time' = 60
               /\ steps' = <<"fetch", "compose", "sleep">>
               /\ posted_call' = None
               /\ published' = published
               /\ previous_titles' = previous_titles
        /\ (pc = "sleeping" /\ sleep_time = 60) => pc' = "fetch"
      ]_vars

C1_Witness ==
    /\ pc = "sleeping"
    /\ sleep_time = 60
    /\ steps = <<"fetch", "compose", "sleep">>
    /\ previous_titles # {}

\* C2: a title that has been composed is passed to create_tweet in the
\* same cycle, once; every later cycle that composes the same title comes
\* back with None and reaches no image step and no create_tweet call, so
\* no title is passed to create_tweet more than once.
C2_NoTitlePublishedTwice ==
    /\ \A t \in BagToSet(published) :
          CopiesIn(t, published) = 1 /\ t \in previous_titles
    /\ pc \in {"fetch", "check_topics", "compose", "dedupe"}
          => BagToSet(published) = previous_titles
    /\ (pc = "check_tweet" /\ BagIn(Val(clean_title), published))
          => tweet_text = None
    /\ pc \in {"download", "upload", "publish"}
          => ~BagIn(Val(clean_title), published)

C2_Witness ==
    /\ pc = "check_tweet"
    /\ tweet_text = None
    /\ CopiesIn(Val(clean_title), published) = 1
    /\ Cardinality(previous_titles) = 2

\* C3: a draft returned by create_tweet_text has at most 275 code points.
C3_DraftAtMost275 ==
    tweet_text # None => Len(Val(tweet_text)) <= 275

C3_Witness ==
    /\ pc = "check_tweet"
    /\ tweet # None
    /\ Len(Val(tweet)) = 276
    /\ Len(Val(tweet_text)) = 275

\* C4: the draft is the assembled string when that has at most 275 code
\* points and its last 275 code points otherwise; either way it ends with
\* the three chosen hashtags, joined by spaces, and the whole timestamp.
C4_TailIsKept ==
    (pc = "check_tweet" /\ tweet_text # None) =>
        LET assembled == Val(tweet)
            draft == Val(tweet_text)
        IN  /\ EndsWith(assembled, draft)
            /\ Len(assembled) <= 275 => draft = assembled
            /\ Len(assembled) > 275 => Len(draft) = 275
            /\ EndsWith(draft, Val(stamp))
            /\ \A i \in 1..3 : Contains(Val(tag_sample)[i], draft)
            /\ EndsWith(draft, Join(Val(tag_sample))
                               \o <<"LF","LF","U23F3"," ">> \o Val(stamp))

C4_Witness ==
    /\ pc = "check_tweet"
    /\ tweet_text # None
    /\ Len(Val(tweet)) > 400
    /\ Val(tweet_text) # Val(tweet)
    /\ EndsWith(Val(tweet_text), Val(stamp))
    /\ Len(Val(stamp)) = 10

\* C5: the hashtags of a composed draft are 3 tags, pairwise distinct,
\* each one of the six tags of the fixed list.
SixTags == {
    <<"#","T","r","e","n","d","i","n","g">>,
    <<"#","I","n","d","i","a","N","e","w","s">>,
    <<"#","B","r","e","a","k","i","n","g">>,
    <<"#","L","a","t","e","s","t","U","p","d","a","t","e">>,
    <<"#","T","o","p","S","t","o","r","y">>,
    <<"#","I","n","S","h","o","r","t","s">> }

C5_ThreeDistinctTags ==
    tag_sample # None =>
        LET tags == Val(tag_sample)
        IN  /\ Len(tags) = 3
            /\ \A i, j \in 1..Len(tags) : i # j => tags[i] # tags[j]
            /\ \A i \in 1..Len(tags) : tags[i] \in SixTags
            /\ Cardinality(SixTags) = 6
            /\ Contains(<<"LF","LF">> \o Join(tags) \o <<"LF","LF">>, Val(tweet))

C5_Witness ==
    /\ pc = "check_tweet"
    /\ tag_sample # None
    /\ Val(tag_sample) = << <<"#","I","n","S","h","o","r","t","s">>,
                            <<"#","T","r","e","n","d","i","n","g">>,
                            <<"#","T","o","p","S","t","o","r","y">> >>

\* the feed request or the parse raised inside fetch_trending_topics
FetchFailed(r) ==
    \/ r.kind = "error"
    \/ \E i \in 1..Len(r.items) :
          r.items[i].title.kind = "absent" \/ r.items[i].description.kind = "absent"

\* C6: a fetch that fails inside fetch_trending_topics gives the empty
\* list; a cycle whose topics are empty makes no compose, no image lookup
\* and no create_tweet call, leaves previous_titles as it is, sleeps 120
\* seconds and then fetches again.
C6_EmptyFeedSleeps ==
    [][ /\ pc = "fetch"
            => /\ pc' = "check_topics"
               /\ FetchFailed(Val(feed')) => topics' = <<>>
        /\ (pc = "check_topics" /\ topics = <<>>)
            => /\ pc' = "sleeping"
               /\ sleep_time' = 120
               /\ steps' = <<"fetch", "sleep">>
               /\ posted_call' = None
               /\ published' = published
               /\ previous_titles' = previous_titles
        /\ (pc = "sleeping" /\ sleep_time = 120) => pc' = "fetch"
      ]_vars

C6_Witness ==
    /\ pc = "sleeping"
    /\ sleep_time = 120
    /\ steps = <<"fetch", "sleep">>
    /\ feed # None
    /\ FetchFailed(Val(feed))
    /\ Len(Val(feed).items) = 2

\* C7: when create_tweet raises with "429" anywhere in the message,
\* whatever else the message holds, the cycle sleeps 7200 seconds, its
\* only sleep, and the next step after the sleep is the fetch.
C7_RateLimitSleeps ==
    [][ /\ (pc = "except" /\ Contains(<<"4","2","9">>, Val(error)))
            => /\ pc' = "sleeping"
               /\ sleep_time' = 7200
               /\ steps' = Append(steps, "sleep")
               /\ Sleeps(steps) = 0
        /\ (pc = "sleeping" /\ sleep_time = 7200) => pc' = "fetch"
      ]_vars

C7_Witness ==
    /\ pc = "sleeping"
    /\ sleep_time = 7200
    /\ error # None
    /\ Contains(<<"4","2","9">>, Val(error))
    /\ Contains(<<"4","0","3">>, Val(error))

\* C8 as stated: when create_tweet raises with "403" in the message, the
\* cycle sleeps 300 seconds.
C8_Original ==
    [][ (pc = "except" /\ Contains(<<"4","0","3">>, Val(error)))
            => (pc' = "sleeping" /\ sleep_time' = 300)
      ]_vars

\* C8 amended: when create_tweet raises with "403" and without "429" in
\* the message, the cycle sleeps 300 seconds, its only sleep, before the
\* next cycle.
C8_ForbiddenSleeps ==
    [][ /\ (/\ pc = "except"
            /\ Contains(<<"4","0","3">>, Val(error))
            /\ ~Contains(<<"4","2","9">>, Val(error)))
            => /\ pc' = "sleeping"
               /\ sleep_time' = 300
               /\ steps' = Append(steps, "sleep")
               /\ Sleeps(steps) = 0
        /\ (pc = "sleeping" /\ sleep_time = 300) => pc' = "fetch"
      ]_vars

C8_Witness ==
    /\ pc = "sleeping"
    /\ sleep_time = 300
    /\ error # None
    /\ Contains(<<"4","0","3">>, Val(error))
    /\ ~Contains(<<"4","2","9">>, Val(error))

\* C9: when create_tweet returns, the cycle sleeps between 4500 and 9000
\* seconds, both included, and that is its only sleep.
C9_SuccessSleepRange ==
    [][ /\ pc = "posted"
            => /\ pc' = "sleeping"
               /\ sleep_time' >= 4500
               /\ sleep_time' <= 9000
               /\ steps' = Append(steps, "sleep")
               /\ Sleeps(steps) = 0
        /\ (pc = "sleeping" /\ error = None /\ Len(steps) > 3) => pc' = "fetch"
      ]_vars

C9_Witness ==
    /\ pc = "sleeping"
    /\ sleep_time = 9000
    /\ error = None
    /\ steps = <<"fetch", "compose", "search_image", "publish", "sleep">>

\* C10: when create_tweet raises with neither "429" nor "403" in the
\* message, the cycle sleeps between 1800 and 3600 seconds, both included,
\* and the next step after the sleep is the fetch.
C10_FallbackSleepRange ==
    [][ /\ (/\ pc = "except"
            /\ ~Contains(<<"4","2","9">>, Val(error))
            /\ ~Contains(<<"4","0","3">>, Val(error)))
            => /\ pc' = "sleeping"
               /\ sleep_time' >= 1800
               /\ sleep_time' <= 3600
               /\ steps' = Append(steps, "sleep")
        /\ (pc = "sleeping" /\ error # None) => pc' = "fetch"
      ]_vars

C10_Witness ==
    /\ pc = "sleeping"
    /\ sleep_time = 1800
    /\ error # None
    /\ ~Contains(<<"4","2","9">>, Val(error))
    /\ ~Contains(<<"4","0","3">>, Val(error))

\* C11: run_bot never stops: under fair scheduling it sleeps again and
\* again, and again and again a fetch has just been made, whatever the
\* outcomes of the cycles before
C11_FetchesForever ==
    /\ []<>(pc = "sleeping")
    /\ []<>(pc = "check_topics")

\* a fetch has been made after a publish call that raised
C11_Witness == pc = "check_topics" /\ last_publish = "failed"

\* the three image steps of lines 199-205 have all given a usable value
AllImageStepsOk ==
    TruthyStr(image_url) /\ TruthyObj(img_bytes) /\ TruthyStr(media_id)

\* number of create_tweet calls among a cycle's steps
Publishes(st) == Cardinality({i \in 1..Len(st) : st[i] = "publish"})

\* C12: once create_tweet_text has returned a draft, the cycle goes through
\* the image steps to the create_tweet call whatever they return, keeps the
\* draft on the way, and makes that call once, with the draft as its text
\* and with the media handle exactly when the URL lookup, the download and
\* the upload have all succeeded (text only otherwise)
C12_PublishesDraftOnce ==
    [][ /\ (pc = "check_tweet" /\ ~SkipCondition =>
              pc' \in {"download", "publish"} /\ tweet_text' = tweet_text)
        /\ (pc = "download" =>
              pc' \in {"upload", "publish"} /\ tweet_text' = tweet_text)
        /\ (pc = "upload" => pc' = "publish" /\ tweet_text' = tweet_text)
        /\ (pc = "publish" =>
              /\ pc' = "publishing"
              /\ Publishes(steps) = 0 /\ Publishes(steps') = 1
              /\ posted_call' # None
              /\ Val(posted_call').text = Val(tweet_text)
              /\ Val(posted_call').media_ids =
                    IF AllImageStepsOk THEN <<Val(media_id)>> ELSE <<>>)
        /\ (pc = "publishing" =>
              pc' \in {"posted", "except"} /\ Publishes(steps') = 1)
        /\ (pc \in {"posted", "except"} =>
              pc' = "sleeping" /\ Publishes(steps') = 1)
      ]_vars

\* the upload failed after a good lookup and download: the call carries
\* the text alone
C12_Witness ==
    /\ pc = "publishing"
    /\ TruthyStr(image_url) /\ TruthyObj(img_bytes) /\ media_id = None
    /\ Val(posted_call).media_ids = <<>>
    /\ Val(posted_call).text = Val(tweet_text)

\* C13: previous_titles never loses a title.  It changes only when
\* create_tweet_text runs on a title that is not in it, and then by that
\* one title; the title of the tweet being published is in it, and a
\* create_tweet call that raises (429, 403 or anything else) leaves it
\* there, through the handler, the sleep and the wake-up
C13_SeenTitlesOnlyGrow ==
    [][ /\ previous_titles \subseteq previous_titles'
        /\ (previous_titles' # previous_titles =>
              /\ pc = "dedupe"
              /\ Val(clean_title) \notin previous_titles
              /\ previous_titles' = previous_titles \cup {Val(clean_title)})
        /\ (pc = "publishing" =>
              /\ Val(clean_title) \in previous_titles
              /\ Val(clean_title) \in previous_titles')
        /\ (pc \in {"except", "sleeping"} => previous_titles' = previous_titles)
      ]_vars

\* a second title's create_tweet call has raised, and both titles are kept
C13_Witness ==
    /\ pc = "except"
    /\ error # None
    /\ Cardinality(previous_titles) = 2

\* the lowercase description d begins with the lowercase first 20 code
\* points of the title t, or with all of t when t has fewer
StartsLikeTitle(t, d) ==
    LET n == IF Len(t) < 20 THEN Len(t) ELSE 20
    IN  /\ n <= Len(d)
        /\ \A i \in 1..n : LowerChar(d[i]) = LowerChar(t[i])

\* the description stands in the assembled draft, between the title line
\* and the hashtag line
DescriptionInDraft ==
    LET tw == Val(tweet)
        d == Val(kept_description)
        tail == 2 + Len(Join(Val(tag_sample))) + 4 + Len(Val(stamp))
        head == Len(tw) - tail - Len(d)
    IN  /\ head >= 2
        /\ SubSeq(tw, head + 1, head + Len(d)) = d
        /\ SubSeq(tw, head - 1, head) = <<"LF","LF">>
        /\ SubSeq(tw, head + Len(d) + 1, head + Len(d) + 2) = <<"LF","LF">>

\* C14 as stated: the description is discarded exactly when its lowercase
\* first 20 code points equal the lowercase first 20 code points of the
\* title, and kept for every other pair
C14_Original ==
    pc = "dedupe" =>
        LET t == Val(clean_title)
            d == clean_html(Val(topic).description)
        IN  Val(kept_description) =
                IF Prefix(Lower(d), 20) = Prefix(Lower(t), 20) THEN <<>> ELSE d

\* C14, amended: create_tweet_text discards the description exactly when
\* the lowercase cleaned description starts with the lowercase first 20
\* code points of the cleaned title, which is the whole title when it is
\* shorter and nothing when it is empty; every other description is kept
\* and stands in the draft
C14_DescriptionDroppedOnTitleStart ==
    /\ pc = "dedupe" =>
          LET t == clean_html(Val(topic).title)
              d == clean_html(Val(topic).description)
          IN  /\ Val(clean_title) = t
              /\ Val(kept_description) = IF StartsLikeTitle(t, d) THEN <<>> ELSE d
    /\ (pc = "check_tweet" /\ tweet # None) => DescriptionInDraft

\* a description that goes on after a one-letter title is discarded
C14_Witness ==
    /\ pc = "check_tweet"
    /\ tweet # None
    /\ Val(clean_title) = TitleA
    /\ Val(topic).description = DescA
    /\ Val(kept_description) = <<>>

\* the cleaned titles of all the topics the feed can give
SourceTitles ==
    UNION {{clean_html(fetch_trending_topics(r)[i].title) :
               i \in 1..Len(fetch_trending_topics(r))} :
           r \in NonEmptyResponses}

\* C15 as stated: with topics at every fetch, a create_tweet call that
\* raised is always followed, sooner or later, by another create_tweet call
C15_Original == (pc = "except") ~> (pc = "publishing")

\* C15, amended: with topics at every fetch, a create_tweet call that
\* raised is always followed by another fetch, and every later cycle whose
\* topic has a title not yet in previous_titles gets a draft and goes on
\* to the create_tweet call; a title that is in previous_titles, the
\* failed one included, gets no draft and no call, so once all the titles
\* of the feed are in it no call follows
C15_RetriesOnlyNewTitles ==
    /\ (pc = "except") ~> (pc = "check_topics")
    /\ [][ /\ (pc = "dedupe" =>
                  IF Val(clean_title) \in previous_titles
                  THEN tweet_text' = None /\ previous_titles' = previous_titles
                  ELSE tweet_text' # None /\ ~SkipCondition')
            /\ (pc = "check_tweet" =>
                  IF tweet_text = None
                  THEN pc' = "sleeping"
                  ELSE pc' \in {"download", "publish"})
            /\ (pc = "download" => pc' \in {"upload", "publish"})
            /\ (pc = "upload" => pc' = "publish")
            /\ (pc = "publish" => pc' = "publishing")
            /\ (pc = "dedupe" /\ SourceTitles \subseteq previous_titles =>
                  tweet_text' = None)
          ]_vars

\* a create_tweet call is made after an earlier one has raised
C15_Witness == pc = "publishing" /\ last_publish = "failed"

\* C17 as stated: create_tweet_text returns None exactly when topic["title"]
\* is in previous_titles, and otherwise returns a non-empty draft and adds
\* topic["title"] to previous_titles
C17_Original ==
    [][pc = "dedupe" =>
         LET raw == Val(topic).title
         IN  /\ (tweet_text' = None) <=> (raw \in previous_titles)
             /\ (raw \notin previous_titles =>
                   /\ ~SkipCondition'
                   /\ previous_titles' = previous_titles \cup {raw})
      ]_vars

\* C17, amended: create_tweet_text returns None exactly when the cleaned
\* title, clean_html(topic["title"]), is in previous_titles; otherwise it
\* returns a draft that is not blank and adds the cleaned title to
\* previous_titles, so the skip of line 192 is only ever taken on None
C17_NoneIffCleanTitleSeen ==
    /\ [](pc = "dedupe" => Val(clean_title) = clean_html(Val(topic).title))
    /\ [](pc = "check_tweet" => (SkipCondition <=> tweet_text = None))
    /\ [][pc = "dedupe" =>
            LET title == Val(clean_title)
            IN  /\ (tweet_text' = None) <=> (title \in previous_titles)
                /\ (title \in previous_titles =>
                      previous_titles' = previous_titles)
                /\ (title \notin previous_titles =>
                      /\ ~SkipCondition'
                      /\ previous_titles' = previous_titles \cup {title})
         ]_vars

\* None is returned for a title with markup that is not itself in
\* previous_titles: its cleaned form is
C17_Witness ==
    /\ pc = "check_tweet"
    /\ tweet_text = None
    /\ Val(topic).title = TitleMarkupA
    /\ TitleMarkupA \notin previous_titles
    /\ Val(clean_title) \in previous_titles

\* the calls of a whole cycle, in order: an empty feed, a skipped topic,
\* and a publish after one, two or three image steps
CycleShapes ==
    { <<"fetch", "sleep">>,
      <<"fetch", "compose", "sleep">>,
      <<"fetch", "compose", "search_image", "publish", "sleep">>,
      <<"fetch", "compose", "search_image", "download_image", "publish", "sleep">>,
      <<"fetch", "compose", "search_image", "download_image", "upload_image",
        "publish", "sleep">> }

\* p is s cut off after some call
IsPrefix(p, s) == Len(p) <= Len(s) /\ SubSeq(s, 1, Len(p)) = p

\* C18: the calls of every cycle are made in the order fetch, compose,
\* image steps, publish, sleep, with one fetch, at most one compose, at
\* most one publish and one sleep, which comes last; a fetch is made only
\* at the start of the run or right after the sleep that ends a cycle
C18_CycleOrder ==
    [][ /\ \E c \in CycleShapes : IsPrefix(steps', c)
        /\ (pc' = "sleeping" => steps' \in CycleShapes)
        /\ (steps' \in CycleShapes => pc' \in {"sleeping", "fetch"})
        /\ (pc = "fetch" =>
              /\ steps = <<>> \/ steps \in CycleShapes
              /\ steps' = <<"fetch">>)
        /\ (steps \in CycleShapes => steps' \in {steps, <<"fetch">>})
        /\ (steps' # steps /\ steps' # <<"fetch">> =>
              \E call \in {"compose", "search_image", "download_image",
                            "upload_image", "publish", "sleep"} :
                 steps' = Append(steps, call))
      ]_vars

\* a cycle with all three image steps is over and the next fetch is due
C18_Witness ==
    /\ pc = "fetch"
    /\ steps = <<"fetch", "compose", "search_image", "download_image",
                 "upload_image", "publish", "sleep">>

\* C19: when create_tweet is called and has been called before in the run,
\* at least 300 s have been slept since that call, and at least 4500 s
\* when that call returned
C19_QuietBetweenPublishes ==
    pc = "publish" =>
        /\ (last_publish # "none" => slept >= 300)
        /\ (last_publish = "ok" => slept >= 4500)

\* the next create_tweet call is due after one that raised
C19_Witness == pc = "publish" /\ last_publish = "failed" /\ slept = 300

====
